---- MODULE Spec2Model ----
(***************************************************************************)
(* Tunnel supervisor (src/server/tunnelManager.ts) and protocol engine     *)
(* (src/server/mcpSseServer.ts) of vscode-ssh-bridge-mcp as a state        *)
(* machine.                                                                *)
(*                                                                         *)
(* The supervisor runs on one cooperative event loop, so every public      *)
(* method and every event handler is one atomic action.  A TunnelState     *)
(* object outlives its entry in the `tunnels` map: the handlers and timer  *)
(* callbacks registered by connect() close over the object, not over the   *)
(* key.  The model therefore keeps every TunnelState ever created in the   *)
(* sequence `st` and lets `tunnels` map a key to the index of the object   *)
(* that is currently tracked.                                              *)
(*                                                                         *)
(* Environment (Node child_process and timers):                            *)
(*  - spawn() throws, or returns a ChildProcess that either runs (phase    *)
(*    "spawning", then 'spawn') or could not be started (phase "failing",  *)
(*    then 'error'; kill() on it does nothing).  Node leaves open whether  *)
(*    'exit' follows 'error'; for a failed spawn it delivers none, and every *)
(*    specification but SpecErrorExit takes that outcome;                  *)
(*  - a running process delivers stdout and stderr chunks and finally      *)
(*    'exit';                                                              *)
(*  - kill() on a process delivers the signal and sets `killed`; the       *)
(*    process stays alive until its 'exit' event;                          *)
(*  - timers fire in expiry order: the 2000 ms confirmation timer armed at *)
(*    'spawn' expires before any reconnect timer (>= 3000 ms) armed at or  *)
(*    after that process's exit.  Timers of different TunnelState objects  *)
(*    are unordered.                                                       *)
(*                                                                         *)
(* Spec explores MaxStarts startTunnel calls, SpecPair one more (a restart  *)
(* or a second key next to the first tunnel).  `last` is a history         *)
(* variable: it tells whether the step just taken was stopAll(), a call of *)
(* getStatus() or of startTunnels(), or subprocess output with no known    *)
(* failure phrase in it.  SpecBatch runs startTunnels over config lists.   *)
(* SpecKeys runs the map operations over configs whose keys agree or       *)
(* differ, SpecStatus two tunnels with a caller of getStatus().            *)
(*                                                                         *)
(* SpecEngine is the engine alone (start, stop, push channels, requests),  *)
(* SpecBind its port binding with bind conflicts and the millisecond clock *)
(* behind the session ids, SpecSystem two tunnels next to a started engine *)
(* with push channels, SpecRouting the method routing over every method    *)
(* of the protocol, SpecHttp every method and URL that handleRequest tells *)
(* apart.  A client disconnect is what the 'close' event of                *)
(* the GET /sse request reports.  `conflicts`, `issued`, `calls` and the   *)
(* `outcome` field of a request are history variables.                     *)
(* SpecSession follows what is written to each push channel, keep-alive    *)
(* pings included, SpecBatch runs startTunnels over config lists,          *)
(* SpecDoomed one tunnel whose subprocesses all exit early, under fair     *)
(* delivery of events and timers.  `listenHost` is the interface of the    *)
(* last listen() call.                                                     *)
(***************************************************************************)
EXTENDS Integers, Sequences, FiniteSets, TLC

\* ---------------------------------------------------------------- bounds
\* startTunnel calls explored (TunnelState objects created)
MaxStarts == 1
\* while several TunnelState objects exist, reconnect attempts explored per object
MaxSharedRetries == 1
\* push channels opened (GET /sse), POST /message requests, clock ticks (ms)
\* and bind conflicts explored
MaxSessions == 2
MaxRequests == 2
MaxClock == 1
MaxConflicts == 2
\* reconnect timers left pending under an overwritten handle, per TunnelState
MaxOrphans == 1
\* keep-alive pings explored, and requests explored next to them
MaxPings == 1

\* ------------------------------------------------------ program constants
maxReconnectAttempts == 10
baseReconnectDelay == 3000
MaxDelay == 60000
ConfirmDelay == 2000
DefaultPort == 9847
\* delays are held in 1/Scale ms so that 3000 * 1.5^(k-1) is exact for k <= 10
Scale == 64

\* state.process = null
Null == [phase |-> "null", killed |-> FALSE]
NoError == "undefined"
ErrPortInUse == "Remote port already in use"
ErrAuth == "SSH authentication failed"
ErrRefused == "Connection refused"
ErrMax == "Max reconnect attempts reached"
ErrSpawn == "spawn ssh ENOENT"
ErrThrown == "Error: spawn failed"

PhrasePort == "remote port forwarding failed"
PhraseDenied == "Permission denied"
PhraseRefused == "Connection refused"
Phrases == {PhrasePort, PhraseDenied, PhraseRefused}
\* a chunk of subprocess output, by the set of texts it contains: known
\* phrases, and text that is none of them (includes() is case-sensitive)
OtherText == {"Warning: Permanently added", "permission denied"}
Chunks ==
    {{}, {PhrasePort}, {PhraseDenied}, {PhraseRefused}, {PhraseDenied, PhraseRefused}, OtherText}

Configs == {[host |-> "a@h", remotePort |-> 0], [host |-> "a@h:2200", remotePort |-> 9000]}

VARIABLES tunnels, st, notice, last
\* the protocol engine (McpSseServer)
VARIABLES server, port, promise, conflicts, sseClients, chan, now, reqs, calls, issued
\* the interface the listening socket was last bound to
VARIABLES listenHost
tvars == <<tunnels, st, notice, last>>
evars == <<server, port, promise, conflicts, sseClients, chan, now, reqs, calls, issued, listenHost>>
vars == <<tunnels, st, notice, last,
          server, port, promise, conflicts, sseClients, chan, now, reqs, calls, issued, listenHost>>

\* a key that formats remotePort as it is, absent or not
getTunnelKeyNoDefault(config) ==
    config.host \o ":" \o (IF config.remotePort # 0 THEN ToString(config.remotePort) ELSE "undefined")

\* `${config.host}:${config.remotePort || 9847}`; an absent remotePort is 0
getTunnelKey(config) ==
    config.host \o ":" \o ToString(IF config.remotePort # 0 THEN config.remotePort ELSE DefaultPort)

Keys == {getTunnelKey(c) : c \in Configs}

Slots == 1..Len(st)
Tracked == {tunnels[k] : k \in DOMAIN tunnels}
KeyOf(s) == getTunnelKey(st[s].config)

\* Math.pow(1.5, n) * Scale * base, exact in integers for n <= 9
RECURSIVE Pow15Scaled(_, _)
Pow15Scaled(x, n) == IF n = 0 THEN x ELSE Pow15Scaled((x * 3) \div 2, n - 1)

Min(a, b) == IF a <= b THEN a ELSE b

\* mutant: exponent taken from the attempt number itself
ReconnectDelayOffByOne(attempts) ==
    Min(Pow15Scaled(baseReconnectDelay * Scale, attempts), MaxDelay * Scale)

ReconnectDelay(attempts) ==
    Min(Pow15Scaled(baseReconnectDelay * Scale, attempts - 1), MaxDelay * Scale)

\* mutant: the cap test lets one more attempt through
scheduleReconnectLateCap(state) ==
    IF state.reconnectAttempts > maxReconnectAttempts
    THEN [state EXCEPT !.status = "error", !.lastError = ErrMax]
    ELSE [state EXCEPT !.reconnectAttempts = @ + 1,
                       !.reconnectTimer = "armed",
                       !.orphans = IF state.reconnectTimer = "armed" THEN @ + 1 ELSE @,
                       !.timerDelay = ReconnectDelay(state.reconnectAttempts + 1)]

\* mutant: the timer is armed without counting the attempt
scheduleReconnectNoCount(state) ==
    IF state.reconnectAttempts >= maxReconnectAttempts
    THEN [state EXCEPT !.status = "error", !.lastError = ErrMax]
    ELSE [state EXCEPT !.reconnectTimer = "armed",
 !.orphans = IF state.reconnectTimer = "armed" THEN @ + 1 ELSE @,
                       !.timerDelay = ReconnectDelay(state.reconnectAttempts + 1)]

\* a scheduler with no cap on the attempts
scheduleReconnectNoCap(state) ==
    [state EXCEPT !.reconnectAttempts = @ + 1,
                  !.reconnectTimer = "armed",
                  !.orphans = IF state.reconnectTimer = "armed" THEN @ + 1 ELSE @,
                  !.timerDelay = ReconnectDelay(state.reconnectAttempts + 1)]

\* scheduleReconnect; setTimeout's handle overwrites state.reconnectTimer, so
\* a timer still pending under the old handle stays pending (`orphans`)
scheduleReconnect(state) ==
    IF state.reconnectAttempts >= maxReconnectAttempts
    THEN [state EXCEPT !.status = "error", !.lastError = ErrMax]
    ELSE [state EXCEPT !.reconnectAttempts = @ + 1,
                       !.reconnectTimer = "armed",
                       !.orphans = IF state.reconnectTimer = "armed" THEN @ + 1 ELSE @,
                       !.timerDelay = ReconnectDelay(state.reconnectAttempts + 1)]

\* connect(state): spawn() returns a running ChildProcess ("spawned"), one that
\* could not be started ("failing"), or throws
connect(state, outcome) ==
    CASE outcome = "spawned" ->
           [state EXCEPT !.process = [phase |-> "spawning", killed |-> FALSE]]
      [] outcome = "failing" ->
           [state EXCEPT !.process = [phase |-> "failing", killed |-> FALSE]]
      [] OTHER ->
           scheduleReconnect([state EXCEPT !.status = "error", !.lastError = ErrThrown])

ConnectOutcomes == {"spawned", "failing", "thrown"}

\* ChildProcess.kill(): signals a process that has a handle
kill(process) ==
    IF process.phase \in {"spawning", "up"} THEN [process EXCEPT !.killed = TRUE] ELSE process

\* mutant: stopTunnel without clearTimeout
stopStateNoClear(state) ==
    [state EXCEPT !.process = IF @ # Null THEN kill(@) ELSE @]

\* the effect of stopTunnel(key) on the TunnelState object it finds
stopState(state) ==
    [state EXCEPT
        !.reconnectTimer = IF @ = "armed" THEN "cleared" ELSE @,
        !.timerDelay = 0,
        !.process = IF @ # Null THEN kill(@) ELSE @]

NewState(config) ==
    [config |-> config, process |-> Null, status |-> "connecting",
     lastError |-> NoError, reconnectAttempts |-> 0,
     reconnectTimer |-> "none", timerDelay |-> 0, confirm |-> FALSE, orphans |-> 0]

Without(f, k) == [x \in (DOMAIN f) \ {k} |-> f[x]]
With(f, k, v) == [x \in (DOMAIN f) \cup {k} |-> IF x = k THEN v ELSE f[x]]
EmptyMap == [x \in {} |-> 0]

Init ==
    /\ tunnels = EmptyMap
    /\ st = <<>>
    /\ notice = "none"
    /\ last = "none"
    /\ server = "null"
    /\ port = DefaultPort
    /\ promise = [state |-> "none", value |-> 0]
    /\ conflicts = {}
    /\ sseClients = {}
    /\ chan = <<>>
    /\ now = 0
    /\ reqs = <<>>
    /\ calls = <<>>
    /\ issued = <<>>
    /\ listenHost = "none"

startTunnel(limit, config, outcome) ==
    LET key == getTunnelKey(config)
        stopped == IF key \in DOMAIN tunnels
                   THEN [st EXCEPT ![tunnels[key]] = stopState(@)]
                   ELSE st
        new == Len(st) + 1
    IN /\ Len(st) < limit
       /\ \A s \in Slots : st[s].reconnectAttempts <= MaxSharedRetries
       /\ st' = Append(stopped, connect(NewState(config), outcome))
       /\ tunnels' = With(tunnels, key, new)
       /\ notice' = "none"
       /\ last' = "none"

stopTunnel(key) ==
    /\ key \in DOMAIN tunnels
    /\ st' = [st EXCEPT ![tunnels[key]] = stopState(@)]
    /\ tunnels' = Without(tunnels, key)
    /\ notice' = "none"
    /\ last' = "none"

stopAll ==
    /\ st' = [s \in Slots |-> IF s \in Tracked THEN stopState(st[s]) ELSE st[s]]
    /\ tunnels' = EmptyMap
    /\ notice' = "none"
    /\ last' = "stopAll"

\* TunnelConfig.enabled as written in the settings: true, false, or absent
EnabledFlags == {"true", "false", "absent"}
BatchEntries == {[config |-> c, enabled |-> e] : c \in Configs, e \in EnabledFlags}
\* config lists handed to startTunnels: one entry, or two
Batches == {<<e>> : e \in BatchEntries} \cup {<<e, f>> : e \in BatchEntries, f \in BatchEntries}

\* startTunnel(config) on the map and the TunnelState objects in m
Start(m, config, outcome) ==
    LET key == getTunnelKey(config)
        stopped == IF key \in DOMAIN m.tunnels
                   THEN [m.st EXCEPT ![m.tunnels[key]] = stopState(@)]
                   ELSE m.st
    IN [tunnels |-> With(m.tunnels, key, Len(m.st) + 1),
        st |-> Append(stopped, connect(NewState(config), outcome))]

\* a loop that starts only the configs that say enabled: true
RECURSIVE StartEachStrict(_, _, _)
StartEachStrict(m, configs, outcome) ==
    IF configs = <<>> THEN m
    ELSE StartEachStrict(IF Head(configs).enabled = "true"
                         THEN Start(m, Head(configs).config, outcome) ELSE m,
                         Tail(configs), outcome)

\* for (const config of configs) if (config.enabled !== false) await startTunnel(config)
RECURSIVE StartEach(_, _, _)
StartEach(m, configs, outcome) ==
    IF configs = <<>> THEN m
    ELSE StartEach(IF Head(configs).enabled # "false"
                   THEN Start(m, Head(configs).config, outcome) ELSE m,
                   Tail(configs), outcome)

\* startTunnels(configs); every spawn() of the call has the same outcome.
\* connect() waits for nothing, so the loop runs to its end before any event
\* is handled
startTunnels(limit, configs, outcome) ==
    LET m == StartEach([tunnels |-> tunnels, st |-> st], configs, outcome)
    IN /\ Len(st) + Len(configs) <= limit
       /\ st' = m.st
       /\ tunnels' = m.tunnels
       /\ notice' = "none"
       /\ last' = "startTunnels"

\* sshProcess.on('spawn')
OnSpawn(s) ==
    /\ st[s].process # Null
    /\ st[s].process.phase = "spawning"
    /\ st' = [st EXCEPT ![s].process.phase = "up", ![s].confirm = TRUE]
    /\ notice' = "none"
    /\ last' = "none"
    /\ UNCHANGED tunnels

\* sshProcess.on('error'): the process could not be started
OnError(s) ==
    /\ st[s].process # Null
    /\ st[s].process.phase = "failing"
    /\ st' = [st EXCEPT ![s] = scheduleReconnect(
                  [@ EXCEPT !.process.phase = "failed",
                            !.status = "error", !.lastError = ErrSpawn])]
    /\ notice' = "none"
    /\ last' = "none"
    /\ UNCHANGED tunnels

\* sshProcess.on('exit') for a subprocess whose 'error' event has been
\* handled already: Node leaves open whether 'exit' follows 'error'
OnExitAfterError(s) ==
    /\ st[s].process # Null
    /\ st[s].process.phase = "failed"
    /\ st' = [st EXCEPT ![s] = scheduleReconnect(
                  [@ EXCEPT !.process = Null,
                            !.status = IF @ = "connected" THEN "disconnected" ELSE @])]
    /\ notice' = IF st[s].status = "connected" THEN "warn" ELSE "none"
    /\ last' = "none"
    /\ UNCHANGED tunnels

\* an exit handler that drops the handle and leaves the status as it is
OnExitKeepsStatus(s) ==
    /\ st[s].process # Null
    /\ st[s].process.phase = "up"
    /\ st' = [st EXCEPT ![s] = scheduleReconnect([@ EXCEPT !.process = Null])]
    /\ notice' = IF st[s].status = "connected" THEN "warn" ELSE "none"
    /\ last' = "none"
    /\ UNCHANGED tunnels

\* an exit handler that reports every exit as an error
OnExitMarksError(s) ==
    /\ st[s].process # Null
    /\ st[s].process.phase = "up"
    /\ st' = [st EXCEPT ![s] = scheduleReconnect([@ EXCEPT !.process = Null, !.status = "error"])]
    /\ notice' = IF st[s].status = "connected" THEN "warn" ELSE "none"
    /\ last' = "none"
    /\ UNCHANGED tunnels

\* an exit handler that marks every tunnel of the manager, not only its own
OnExitShared(s) ==
    /\ st[s].process # Null
    /\ st[s].process.phase = "up"
    /\ st' = [t \in Slots |->
                IF t = s
                THEN scheduleReconnect(
                        [st[t] EXCEPT !.process = Null,
                                      !.status = IF @ = "connected" THEN "disconnected" ELSE @])
                ELSE [st[t] EXCEPT !.status = IF @ = "connected" THEN "disconnected" ELSE @]]
    /\ notice' = IF st[s].status = "connected" THEN "warn" ELSE "none"
    /\ last' = "none"
    /\ UNCHANGED tunnels

\* sshProcess.on('exit')
OnExit(s) ==
    /\ st[s].process # Null
    /\ st[s].process.phase = "up"
    /\ st' = [st EXCEPT ![s] = scheduleReconnect(
                  [@ EXCEPT !.process = Null,
                            !.status = IF @ = "connected" THEN "disconnected" ELSE @])]
    /\ notice' = IF st[s].status = "connected" THEN "warn" ELSE "none"
    /\ last' = "none"
    /\ UNCHANGED tunnels

\* a classification that forgets the last error on unclassified output
ClassifyResets(chunk, lastError) ==
    IF PhrasePort \in chunk THEN ErrPortInUse
    ELSE IF PhraseDenied \in chunk THEN ErrAuth
    ELSE IF PhraseRefused \in chunk THEN ErrRefused
    ELSE NoError

Classify(chunk, lastError) ==
    IF PhrasePort \in chunk THEN ErrPortInUse
    ELSE IF PhraseDenied \in chunk THEN ErrAuth
    ELSE IF PhraseRefused \in chunk THEN ErrRefused
    ELSE lastError

\* sshProcess.stdout.on('data'): the chunk is logged
OnStdout(s) ==
    /\ st[s].process # Null
    /\ st[s].process.phase = "up"
    /\ notice' = "none"
    /\ last' = "output"
    /\ UNCHANGED <<tunnels, st>>

\* sshProcess.stderr.on('data'); `last` tells a chunk with no known phrase
OnStderr(s, chunk) ==
    /\ st[s].process # Null
    /\ st[s].process.phase = "up"
    /\ st' = [st EXCEPT ![s].lastError = Classify(chunk, @)]
    /\ notice' = "none"
    /\ last' = IF chunk \cap Phrases = {} THEN "output" ELSE "none"
    /\ UNCHANGED tunnels

\* a confirmation callback that forgets the last error once connected
OnConfirmTimerClearsError(s) ==
    /\ st[s].confirm
    /\ LET alive == st[s].process # Null /\ ~st[s].process.killed
       IN /\ st' = [st EXCEPT ![s] =
                     IF alive
                     THEN [@ EXCEPT !.confirm = FALSE, !.status = "connected",
                                    !.reconnectAttempts = 0, !.lastError = NoError]
                     ELSE [@ EXCEPT !.confirm = FALSE]]
          /\ notice' = IF alive THEN "info" ELSE "none"
    /\ last' = "none"
    /\ UNCHANGED tunnels

\* a confirmation callback that tests state.process only, not its killed flag
OnConfirmTimerNoKilledCheck(s) ==
    /\ st[s].confirm
    /\ LET alive == st[s].process # Null
       IN /\ st' = [st EXCEPT ![s] =
                     IF alive
                     THEN [@ EXCEPT !.confirm = FALSE, !.status = "connected",
                                    !.reconnectAttempts = 0]
                     ELSE [@ EXCEPT !.confirm = FALSE]]
          /\ notice' = IF alive THEN "info" ELSE "none"
    /\ last' = "none"
    /\ UNCHANGED tunnels

\* the setTimeout(..., 2000) callback armed by the 'spawn' handler
OnConfirmTimer(s) ==
    /\ st[s].confirm
    /\ LET alive == st[s].process # Null /\ ~st[s].process.killed
       IN /\ st' = [st EXCEPT ![s] =
                     IF alive
                     THEN [@ EXCEPT !.confirm = FALSE, !.status = "connected",
                                    !.reconnectAttempts = 0]
                     ELSE [@ EXCEPT !.confirm = FALSE]]
          /\ notice' = IF alive THEN "info" ELSE "none"
    /\ last' = "none"
    /\ UNCHANGED tunnels

\* the setTimeout(..., delay) callback armed by scheduleReconnect
OnReconnectTimer(s, outcome) ==
    /\ st[s].reconnectTimer = "armed"
    \* expiry order: a pending confirmation timer of this object was armed
    \* before this reconnect timer and waits less, so it fires first
    /\ ConfirmDelay < baseReconnectDelay => ~st[s].confirm
    /\ Len(st) = 1 \/ st[s].reconnectAttempts <= MaxSharedRetries
    /\ st' = [st EXCEPT ![s] = connect(
                  [@ EXCEPT !.reconnectTimer = "fired", !.timerDelay = 0,
                            !.status = "connecting"], outcome)]
    /\ notice' = "none"
    /\ last' = "none"
    /\ UNCHANGED tunnels

\* the supervisor's methods and handlers touch no field of the engine
NextUpTo(limit) ==
    /\ UNCHANGED evars
    /\ \/ \E c \in Configs, o \in ConnectOutcomes : startTunnel(limit, c, o)
       \/ \E k \in Keys : stopTunnel(k)
       \/ stopAll
       \/ \E s \in Slots : OnSpawn(s)
       \/ \E s \in Slots : OnError(s)
       \/ \E s \in Slots : OnExit(s)
       \/ \E s \in Slots : OnStdout(s)
       \/ \E s \in Slots, chunk \in Chunks : OnStderr(s, chunk)
       \/ \E s \in Slots : OnConfirmTimer(s)
       \/ \E s \in Slots, o \in ConnectOutcomes : OnReconnectTimer(s, o)

\* ------------------------------------------------------------------------
\* Protocol engine (src/server/mcpSseServer.ts; the tool set is the extended
\* one of the McpSseServer listing that follows the supervisor in
\* src/server/tunnelManager.ts).  A request whose routing awaits nothing but
\* resolved promises is answered in the step that receives its body; a tool
\* that awaits I/O leaves the request in flight until the capability reports.
\* ------------------------------------------------------------------------
ParseErrorCode == -32700
MethodNotFound == -32601
InvalidParams == -32602
ToolExecutionError == -32000

TOOLS == <<"play_notification", "show_message", "play_attention", "speak",
           "browser_navigate", "browser_screenshot", "browser_click", "browser_fill",
           "browser_evaluate", "browser_select", "browser_hover">>
ToolNames == {TOOLS[i] : i \in 1..Len(TOOLS)}
\* the cases of handleToolCall's switch whose handler returns its own
\* {success, error} object (handleSpeak, handleBrowser...)
ReportingTools ==
    {"speak", "browser_navigate", "browser_screenshot", "browser_click", "browser_fill",
     "browser_evaluate", "browser_select", "browser_hover"}

NullId == "null"
NoParams == [present |-> FALSE, name |-> "", arguments |-> "undefined"]
Call(name, arguments) == [present |-> TRUE, name |-> name, arguments |-> arguments]
Msg(id, method, params) == [id |-> id, method |-> method, params |-> params]

\* request bodies: text that is no JSON, the JSON text `null`, and JSON objects
Bodies ==
    { [json |-> "malformed", value |-> Msg(NullId, "", NoParams)],
      [json |-> "null", value |-> Msg(NullId, "", NoParams)],
      [json |-> "object", value |-> Msg("1", "ping", NoParams)],
      [json |-> "object", value |-> Msg("3", "resources/list", NoParams)],
      [json |-> "object", value |-> Msg("4", "tools/call", NoParams)],
      [json |-> "object", value |-> Msg("5", "tools/call", Call("no_such_tool", "object"))],
      [json |-> "object", value |-> Msg("6", "tools/call", Call("play_attention", "undefined"))],
      [json |-> "object", value |-> Msg("7", "tools/call", Call("speak", "object"))],
      [json |-> "object", value |-> Msg("2", "tools/call", Call("play_notification", "null"))] }

\* request bodies for method routing: the four methods answered in place, a
\* notification has no id; method names no case of the switch matches; and
\* tools/call with and without a capability to await
RoutingBodies ==
    { [json |-> "object", value |-> Msg("1", "initialize", NoParams)],
      [json |-> "object", value |-> Msg("undefined", "notifications/initialized", NoParams)],
      [json |-> "object", value |-> Msg("2", "tools/list", NoParams)],
      [json |-> "object", value |-> Msg("3", "ping", NoParams)],
      [json |-> "object", value |-> Msg("6", "Ping", NoParams)],
      [json |-> "object", value |-> Msg("8", "tools/call", Call("browser_console", "object"))],
      [json |-> "object", value |-> Msg("9", "tools/call", Call("play_attention", "undefined"))] }

\* JSON.parse(body): throws, or yields null, or yields the object
JSONparse(body) ==
    [threw |-> body.json = "malformed", isNull |-> body.json = "null", message |-> body.value]

NoResult == [kind |-> "none", text |-> "", tools |-> <<>>]
NoResponse == [id |-> NullId, code |-> 0, message |-> <<"", "">>, result |-> NoResult]
Success(id, result) == [id |-> id, code |-> 0, message |-> <<"", "">>, result |-> result]
Failure(id, code, message) == [id |-> id, code |-> code, message |-> message, result |-> NoResult]
ParseError == Failure(NullId, ParseErrorCode, <<"Parse error", "">>)

\* JSON.stringify of a tool result {success, error?}
JSONstringify(result) ==
    IF result.success THEN "{\"success\":true}" ELSE "{\"success\":false,\"error\":\"...\"}"
\* result: { content: [{ type: 'text', text: JSON.stringify(result) }] }
Wrap(id, result) ==
    Success(id, [kind |-> "content", text |-> JSONstringify(result), tools |-> <<>>])

\* what a handler does before its first wait for I/O: it answers, or it has
\* invoked a capability and waits for it, or it throws out of routing
Respond(response, invoked) == [kind |-> "respond", response |-> response, invoked |-> invoked]
Await(tool) == [kind |-> "await", response |-> NoResponse, invoked |-> tool]
Throw == [kind |-> "throw", response |-> NoResponse, invoked |-> "none"]

\* the value handleToolCall wraps once the awaited capability has reported
CapabilityOutcomes == {"ok", "failed"}
ToolResult(tool, outcome) ==
    IF tool \in ReportingTools
    THEN [success |-> outcome = "ok", error |-> IF outcome = "ok" THEN "" ELSE "failed"]
    ELSE [success |-> TRUE, error |-> ""]

\* a dispatcher with one more case than the catalogue lists
handleToolCallHidden(id, params) ==
    IF ~params.present THEN Throw
    ELSE IF params.name \in ToolNames \/ params.name = "no_such_tool" THEN Await(params.name)
    ELSE Respond(Failure(id, InvalidParams, <<"Unknown tool: ", params.name>>), "none")

\* a dispatcher that answers a call without params with a routed error
handleToolCallGuarded(id, params) ==
    IF ~params.present
    THEN Respond(Failure(id, InvalidParams, <<"Invalid params", "">>), "none")
    ELSE LET name == params.name
             nullArgs == params.arguments = "null"
             typeError == Respond(Failure(id, ToolExecutionError, <<"Tool error: ", "TypeError">>), "none")
         IN CASE name = "play_notification" -> IF nullArgs THEN typeError ELSE Await(name)
              [] name = "show_message" ->
                    IF nullArgs THEN typeError
                    ELSE Respond(Wrap(id, [success |-> TRUE, error |-> ""]), name)
              [] name = "play_attention" -> Await(name)
              [] name \in ReportingTools -> IF nullArgs THEN typeError ELSE Await(name)
              [] OTHER -> Respond(Failure(id, InvalidParams, <<"Unknown tool: ", name>>), "none")

\* a dispatcher whose switch has no case for play_attention
handleToolCallNoAttention(id, params) ==
    IF ~params.present THEN Throw
    ELSE LET name == params.name
             nullArgs == params.arguments = "null"
             typeError == Respond(Failure(id, ToolExecutionError, <<"Tool error: ", "TypeError">>), "none")
         IN CASE name = "play_notification" -> IF nullArgs THEN typeError ELSE Await(name)
              [] name = "show_message" ->
                    IF nullArgs THEN typeError
                    ELSE Respond(Wrap(id, [success |-> TRUE, error |-> ""]), name)
              [] name \in ReportingTools -> IF nullArgs THEN typeError ELSE Await(name)
              [] OTHER -> Respond(Failure(id, InvalidParams, <<"Unknown tool: ", name>>), "none")

handleToolCall(id, params) ==
    IF ~params.present THEN Throw
    ELSE LET name == params.name
             nullArgs == params.arguments = "null"
             typeError == Respond(Failure(id, ToolExecutionError, <<"Tool error: ", "TypeError">>), "none")
         IN CASE name = "play_notification" -> IF nullArgs THEN typeError ELSE Await(name)
              [] name = "show_message" ->
                    IF nullArgs THEN typeError
                    ELSE Respond(Wrap(id, [success |-> TRUE, error |-> ""]), name)
              [] name = "play_attention" -> Await(name)
              [] name \in ReportingTools -> IF nullArgs THEN typeError ELSE Await(name)
              [] OTHER -> Respond(Failure(id, InvalidParams, <<"Unknown tool: ", name>>), "none")

\* the catalogue and the dispatcher of src/server/mcpSseServer.ts, the engine
\* without the speech and browser tools
BaseTOOLS == <<"play_notification", "show_message", "play_attention">>
BaseToolNames == {BaseTOOLS[i] : i \in 1..Len(BaseTOOLS)}
handleToolCallBase(id, params) ==
    IF ~params.present THEN Throw
    ELSE LET name == params.name
             nullArgs == params.arguments = "null"
             typeError == Respond(Failure(id, ToolExecutionError, <<"Tool error: ", "TypeError">>), "none")
         IN CASE name = "play_notification" -> IF nullArgs THEN typeError ELSE Await(name)
              [] name = "show_message" ->
                    IF nullArgs THEN typeError
                    ELSE Respond(Wrap(id, [success |-> TRUE, error |-> ""]), name)
              [] name = "play_attention" -> Await(name)
              [] OTHER -> Respond(Failure(id, InvalidParams, <<"Unknown tool: ", name>>), "none")

\* a router whose catalogue shrinks to the first three tools once a
\* capability has been invoked
processMessageShrinkingTools(message) ==
    LET id == message.id
        method == message.method
        empty == [kind |-> "empty", text |-> "", tools |-> <<>>]
        listed == IF calls = <<>> THEN TOOLS ELSE SubSeq(TOOLS, 1, 3)
    IN CASE method = "initialize" ->
                Respond(Success(id, [kind |-> "initialize", text |-> "2024-11-05", tools |-> <<>>]), "none")
         [] method = "notifications/initialized" -> Respond(Success(id, empty), "none")
         [] method = "tools/list" ->
                Respond(Success(id, [kind |-> "tools", text |-> "", tools |-> listed]), "none")
         [] method = "tools/call" -> handleToolCall(id, message.params)
         [] method = "ping" -> Respond(Success(id, empty), "none")
         [] OTHER -> Respond(Failure(id, MethodNotFound, <<"Method not found: ", method>>), "none")

\* a router whose switch has no 'ping' case
processMessageNoPing(message) ==
    LET id == message.id
        method == message.method
    IN CASE method = "initialize" ->
                Respond(Success(id, [kind |-> "initialize", text |-> "2024-11-05", tools |-> <<>>]), "none")
         [] method = "notifications/initialized" ->
                Respond(Success(id, [kind |-> "empty", text |-> "", tools |-> <<>>]), "none")
         [] method = "tools/list" ->
                Respond(Success(id, [kind |-> "tools", text |-> "", tools |-> TOOLS]), "none")
         [] method = "tools/call" -> handleToolCall(id, message.params)
         [] OTHER -> Respond(Failure(id, MethodNotFound, <<"Method not found: ", method>>), "none")

processMessage(message) ==
    LET id == message.id
        method == message.method
        empty == [kind |-> "empty", text |-> "", tools |-> <<>>]
    IN CASE method = "initialize" ->
                Respond(Success(id, [kind |-> "initialize", text |-> "2024-11-05", tools |-> <<>>]), "none")
         [] method = "notifications/initialized" -> Respond(Success(id, empty), "none")
         [] method = "tools/list" ->
                Respond(Success(id, [kind |-> "tools", text |-> "", tools |-> TOOLS]), "none")
         [] method = "tools/call" -> handleToolCall(id, message.params)
         [] method = "ping" -> Respond(Success(id, empty), "none")
         [] OTHER -> Respond(Failure(id, MethodNotFound, <<"Method not found: ", method>>), "none")

\* a handler that routes whatever the body holds
handleMessageNoParseCheck(body) == processMessage(JSONparse(body).message)

\* the 'end' handler of handleMessage up to its first wait
handleMessage(body) ==
    LET parsed == JSONparse(body)
    IN IF parsed.threw \/ parsed.isNull THEN Throw ELSE processMessage(parsed.message)

\* the host a listen() call binds: '127.0.0.1', or, when the call names no
\* host, the unspecified address (every interface of the machine)
Loopback == "127.0.0.1"
Unspecified == "::"

\* start(): createServer, register the 'error' handler,
\* listen(this.port, '127.0.0.1')
start ==
    /\ server = "null"
    /\ promise.state = "none"
    /\ server' = "binding"
    /\ promise' = [state |-> "pending", value |-> 0]
    /\ listenHost' = Loopback
    /\ UNCHANGED <<port, conflicts, sseClients, chan, now, reqs, calls, issued>>
    /\ UNCHANGED tvars

\* the 'listening' callback: resolve(this.port)
OnListening ==
    /\ server = "binding"
    /\ server' = "listening"
    /\ promise' = [state |-> "resolved", value |-> port]
    /\ UNCHANGED <<port, conflicts, sseClients, chan, now, reqs, calls, issued>>
    /\ UNCHANGED <<tvars, listenHost>>

\* an 'error' handler that skips a port
OnAddrInUseSkip ==
    /\ server = "binding"
    /\ port - DefaultPort < MaxConflicts
    /\ conflicts' = conflicts \cup {port}
    /\ port' = port + 2
    /\ listenHost' = Unspecified
    /\ UNCHANGED <<server, promise, sseClients, chan, now, reqs, calls, issued>>
    /\ UNCHANGED tvars

\* the 'error' handler with err.code = 'EADDRINUSE': this.port++ and
\* listen(this.port), this time without a host argument
OnAddrInUse ==
    /\ server = "binding"
    /\ port - DefaultPort < MaxConflicts
    /\ conflicts' = conflicts \cup {port}
    /\ port' = port + 1
    /\ listenHost' = Unspecified
    /\ UNCHANGED <<server, promise, sseClients, chan, now, reqs, calls, issued>>
    /\ UNCHANGED tvars

\* the 'error' handler with any other code: reject(err)
OnListenFailure ==
    /\ server = "binding"
    /\ server' = "failed"
    /\ promise' = [state |-> "rejected", value |-> 0]
    /\ UNCHANGED <<port, conflicts, sseClients, chan, now, reqs, calls, issued>>
    /\ UNCHANGED <<tvars, listenHost>>

\* a stop() that ends the responses but keeps them in the set
stopKeepsClients ==
    /\ server \in {"listening", "failed"}
    /\ chan' = [c \in 1..Len(chan) |->
                 IF c \in sseClients THEN [chan[c] EXCEPT !.state = "ended"] ELSE chan[c]]
    /\ server' = "null"
    /\ UNCHANGED <<port, promise, conflicts, sseClients, now, reqs, calls, issued>>
    /\ UNCHANGED <<tvars, listenHost>>

\* stop(): end every SSE response, clear the set, close the server
stop ==
    /\ server \in {"listening", "failed"}
    /\ chan' = [c \in 1..Len(chan) |->
                 IF c \in sseClients THEN [chan[c] EXCEPT !.state = "ended"] ELSE chan[c]]
    /\ sseClients' = {}
    /\ server' = "null"
    /\ UNCHANGED <<port, promise, conflicts, now, reqs, calls, issued>>
    /\ UNCHANGED <<tvars, listenHost>>

getPort == port
\* GET /health, answered while the server listens
Health == [status |-> 200, body |-> [status |-> "ok", port |-> port]]

\* Date.now() advances
Tick ==
    /\ now < MaxClock
    /\ now' = now + 1
    /\ UNCHANGED <<server, port, promise, conflicts, sseClients, chan, reqs, calls, issued>>
    /\ UNCHANGED <<tvars, listenHost>>

\* a request line: the method and the URL, the URL as its pieces around '?'
Verbs == {"GET", "POST", "OPTIONS", "PUT"}
SseUrl == <<"/sse">>
MessageUrl == <<"/message", "?", "sessionId=session-0">>
Urls ==
    { <<>>, <<"/">>, <<"/health">>, <<"/health", "?", "x=1", "?", "y">>, <<"/health/">>,
      <<"/message">>, MessageUrl, SseUrl, <<"/sse", "?">>, <<"/tools">> }

\* (req.url || '/').split('?')[0]
RECURSIVE SplitHead(_)
SplitHead(url) ==
    IF url = <<>> \/ Head(url) = "?" THEN <<>> ELSE <<Head(url)>> \o SplitHead(Tail(url))
urlPath(url) == IF url = <<>> THEN <<"/">> ELSE SplitHead(url)

\* a router that answers preflight requests on the known paths only
RouteStrictOptions(verb, url) ==
    LET path == urlPath(url)
    IN CASE verb = "OPTIONS" /\ path \in {<<"/sse">>, <<"/message">>, <<"/health">>} -> "options"
         [] path = <<"/sse">> /\ verb = "GET" -> "sse"
         [] path = <<"/message">> /\ verb = "POST" -> "message"
         [] path = <<"/health">> /\ verb = "GET" -> "health"
         [] OTHER -> "notfound"

\* the branch handleRequest takes
Route(verb, url) ==
    LET path == urlPath(url)
    IN CASE verb = "OPTIONS" -> "options"
         [] path = <<"/sse">> /\ verb = "GET" -> "sse"
         [] path = <<"/message">> /\ verb = "POST" -> "message"
         [] path = <<"/health">> /\ verb = "GET" -> "health"
         [] OTHER -> "notfound"

\* a push channel as handleSseConnection leaves it: the endpoint event with
\* `session-${Date.now()}` is the first thing on the wire, the keep-alive
\* interval is armed.  `wire` lists every event written to the response, in
\* order; `inbox` the 'message' events among them
NewChannel == [state |-> "open", endpoint |-> now, inbox |-> <<>>,
               wire |-> <<"endpoint">>, pingInterval |-> "armed"]

\* a handler that registers the response and leaves the endpoint event for later
handleSseConnectionLateEndpoint ==
    /\ server = "listening"
    /\ Len(chan) < MaxSessions
    /\ chan' = Append(chan, [NewChannel EXCEPT !.wire = <<>>])
    /\ sseClients' = sseClients \cup {Len(chan) + 1}
    /\ UNCHANGED <<server, port, promise, conflicts, now, reqs, calls, issued>>
    /\ UNCHANGED <<tvars, listenHost>>

\* handleSseConnection: add res to the set, send the endpoint event, register
\* the 'close' handler, arm the keep-alive interval
handleSseConnection ==
    /\ server = "listening"
    /\ Route("GET", SseUrl) = "sse"
    /\ Len(chan) < MaxSessions
    /\ chan' = Append(chan, NewChannel)
    /\ sseClients' = sseClients \cup {Len(chan) + 1}
    /\ UNCHANGED <<server, port, promise, conflicts, now, reqs, calls, issued>>
    /\ UNCHANGED <<tvars, listenHost>>

\* req.on('close'): the client of channel c has disconnected
OnClose(c) ==
    /\ chan[c].state = "open"
    /\ chan' = [chan EXCEPT ![c].state = "closed"]
    /\ sseClients' = sseClients \ {c}
    /\ UNCHANGED <<server, port, promise, conflicts, now, reqs, calls, issued>>
    /\ UNCHANGED <<tvars, listenHost>>

\* keep-alive pings written so far, over the first n channels
RECURSIVE Pings(_)
Pings(n) ==
    IF n = 0 THEN 0
    ELSE Pings(n - 1) + Len(SelectSeq(chan[n].wire, LAMBDA e : e = "ping"))

\* an interval callback that writes without looking at the set
OnPingIntervalNoCheck(c) ==
    /\ chan[c].pingInterval = "armed"
    /\ Pings(Len(chan)) < MaxPings
    /\ chan' = [chan EXCEPT ![c].wire = Append(@, "ping")]
    /\ UNCHANGED <<server, port, promise, conflicts, sseClients, now, reqs, calls, issued>>
    /\ UNCHANGED <<tvars, listenHost>>

\* the keep-alive interval of channel c fires (every 30 s): write ': ping' if
\* the response is still in the set, clearInterval otherwise
OnPingInterval(c) ==
    /\ chan[c].pingInterval = "armed"
    /\ IF c \in sseClients
       THEN /\ Pings(Len(chan)) < MaxPings
            /\ chan' = [chan EXCEPT ![c].wire = Append(@, "ping")]
       ELSE chan' = [chan EXCEPT ![c].pingInterval = "cleared"]
    /\ UNCHANGED <<server, port, promise, conflicts, sseClients, now, reqs, calls, issued>>
    /\ UNCHANGED <<tvars, listenHost>>

sendSseEvent(channel, r, response) ==
    [channel EXCEPT !.inbox = Append(@, [event |-> "message", req |-> r, data |-> response]),
                    !.wire = Append(@, "message")]

\* a broadcast that reaches one client only
broadcastSseFirstOnly(r, response) ==
    [c \in 1..Len(chan) |->
        IF c \in sseClients /\ \A d \in sseClients : c <= d
        THEN sendSseEvent(chan[c], r, response) ELSE chan[c]]

\* a broadcast that leaves error responses out
broadcastSseSuccessOnly(r, response) ==
    [c \in 1..Len(chan) |->
        IF c \in sseClients /\ response.code = 0
        THEN sendSseEvent(chan[c], r, response) ELSE chan[c]]

\* broadcastSse('message', response) for the response of request r
broadcastSse(r, response) ==
    [c \in 1..Len(chan) |->
        IF c \in sseClients THEN sendSseEvent(chan[c], r, response) ELSE chan[c]]

Invoke(r, tool) == IF tool = "none" THEN calls ELSE Append(calls, [req |-> r, tool |-> tool])

NoBody == [json |-> "none", value |-> Msg(NullId, "", NoParams)]
Request(verb, url, body, phase, tool, status, response) ==
    [verb |-> verb, url |-> url, body |-> body, phase |-> phase, tool |-> tool,
     outcome |-> "none", status |-> status, response |-> response]

\* handleRequest on its branches that answer at once: the preflight answer,
\* GET /health and the 404 (the /sse and /message branches are
\* handleSseConnection and PostMessage)
handleRequest(verb, url) ==
    LET route == Route(verb, url)
        status == CASE route = "options" -> 200
                    [] route = "health" -> Health.status
                    [] OTHER -> 404
    IN /\ server = "listening"
       /\ Len(reqs) < MaxRequests
       /\ route \in {"options", "health", "notfound"}
       /\ reqs' = Append(reqs, Request(verb, url, NoBody, "done", "none", status, NoResponse))
       /\ UNCHANGED <<server, port, promise, conflicts, sseClients, chan, now, calls, issued>>
       /\ UNCHANGED <<tvars, listenHost>>

\* POST /message: the body has arrived ('end')
PostMessage(body) ==
    LET r == Len(reqs) + 1
        step == handleMessage(body)
    IN /\ server = "listening"
       /\ Len(reqs) < MaxRequests
       /\ Route("POST", MessageUrl) = "message"
       /\ calls' = Invoke(r, step.invoked)
       /\ CASE step.kind = "throw" ->
                 /\ reqs' = Append(reqs, Request("POST", MessageUrl, body, "done", "none",
                                                 400, ParseError))
                 /\ UNCHANGED <<chan, issued>>
            [] step.kind = "respond" ->
                 /\ reqs' = Append(reqs, Request("POST", MessageUrl, body, "done", "none",
                                                 200, step.response))
                 /\ chan' = broadcastSse(r, step.response)
                 /\ issued' = Append(issued, r)
            [] OTHER ->
                 /\ reqs' = Append(reqs, Request("POST", MessageUrl, body, "running", step.invoked,
                                                 0, NoResponse))
                 /\ UNCHANGED <<chan, issued>>
       /\ UNCHANGED <<server, port, promise, conflicts, sseClients, now>>
       /\ UNCHANGED <<tvars, listenHost>>

\* the capability awaited by request r reports; handleToolCall wraps the
\* result, handleMessage writes the response and broadcasts it
OnCapabilityDone(r, outcome) ==
    LET response == Wrap(reqs[r].body.value.id, ToolResult(reqs[r].tool, outcome))
    IN /\ reqs[r].phase = "running"
       /\ reqs' = [reqs EXCEPT ![r].phase = "done", ![r].outcome = outcome,
                                ![r].status = 200, ![r].response = response]
       /\ chan' = broadcastSse(r, response)
       /\ issued' = Append(issued, r)
       /\ UNCHANGED <<server, port, promise, conflicts, sseClients, now, calls>>
       /\ UNCHANGED <<tvars, listenHost>>

Lifecycle == start \/ OnListening \/ OnListenFailure \/ stop
Channels == handleSseConnection \/ \E c \in 1..Len(chan) : OnClose(c)
Requests ==
    \/ \E body \in Bodies : PostMessage(body)
    \/ \E r \in 1..Len(reqs), o \in CapabilityOutcomes : OnCapabilityDone(r, o)

NextEngine == Lifecycle \/ Channels \/ Requests
NextBind == Lifecycle \/ OnAddrInUse \/ Channels \/ Tick
\* method routing over RoutingBodies, with sessions coming and going
NextRouting ==
    \/ start
    \/ OnListening
    \/ Channels
    \/ \E body \in RoutingBodies : PostMessage(body)
    \/ \E r \in 1..Len(reqs), o \in CapabilityOutcomes : OnCapabilityDone(r, o)
\* push channels with their keep-alive intervals, next to requests that wait
\* for a capability
SessionBodies ==
    { [json |-> "object", value |-> Msg("7", "tools/call", Call("speak", "object"))] }
NextSession ==
    \/ start
    \/ OnListening
    \/ stop
    \/ handleSseConnection
    \/ \E c \in 1..Len(chan) : OnClose(c)
    \/ \E c \in 1..Len(chan) : OnPingInterval(c)
    \/ \E body \in SessionBodies : Len(reqs) < MaxPings /\ PostMessage(body)
    \/ \E r \in 1..Len(reqs), o \in {"ok"} : OnCapabilityDone(r, o)
\* the whole HTTP surface: every method and URL of Verbs and Urls
NextHttp ==
    \/ start
    \/ OnListening
    \/ stop
    \/ handleSseConnection
    \/ \E verb \in Verbs, url \in Urls : handleRequest(verb, url)
    \/ Requests
\* supervisor and engine on the one event loop: two tunnels next to an engine
\* that is started and has push channels open
NextSystem == NextUpTo(MaxStarts + 1) \/ start \/ OnListening \/ handleSseConnection


\* getStatus(): one entry per tracked key, in Map insertion order (a key is
\* always inserted together with a fresh TunnelState, so insertion order is
\* the order of the tracked objects in st)
RECURSIVE StatusEntries(_)
StatusEntries(n) ==
    IF n = 0 THEN <<>>
    ELSE IF n \in Tracked
         THEN Append(StatusEntries(n - 1),
                     [host |-> KeyOf(n), status |-> st[n].status, error |-> st[n].lastError])
         ELSE StatusEntries(n - 1)

\* a getStatus that also reports the TunnelStates stopTunnel has dropped
RECURSIVE StatusEntriesAll(_)
StatusEntriesAll(n) ==
    IF n = 0 THEN <<>>
    ELSE Append(StatusEntriesAll(n - 1),
                [host |-> KeyOf(n), status |-> st[n].status, error |-> st[n].lastError])
getStatusAll == StatusEntriesAll(Len(st))

getStatus == StatusEntries(Len(st))

\* a caller reads getStatus(): the value returned is getStatus in this state
getStatusCall ==
    /\ last # "getStatus"
    /\ last' = "getStatus"
    /\ UNCHANGED <<tunnels, st, notice>>

\* two tunnels up to their first failure, with one kind of classified stderr
\* chunk, and a caller of getStatus()
NextStatus ==
    /\ UNCHANGED evars
    /\ \/ \E c \in Configs, o \in ConnectOutcomes : startTunnel(MaxStarts + 1, c, o)
       \/ \E k \in Keys : stopTunnel(k)
       \/ stopAll
       \/ \E s \in Slots : OnSpawn(s)
       \/ \E s \in Slots : OnError(s)
       \/ \E s \in Slots : OnExit(s)
       \/ \E s \in Slots, chunk \in {{PhraseDenied}} : OnStderr(s, chunk)
       \/ \E s \in Slots : OnConfirmTimer(s)
       \/ getStatusCall


\* the map operations over configs that agree or differ in host, in
\* remotePort, or in remotePort being absent
KeyConfigs ==
    Configs \cup {[host |-> "a@h", remotePort |-> DefaultPort], [host |-> "a@h:2200", remotePort |-> 0]}
NextKeys ==
    /\ UNCHANGED evars
    /\ \/ \E c \in KeyConfigs, o \in ConnectOutcomes : startTunnel(MaxStarts + 2, c, o)
       \/ \E c \in KeyConfigs : stopTunnel(getTunnelKey(c))
       \/ stopAll
       \/ \E s \in Slots : OnSpawn(s)

\* startTunnels over the config lists, on tunnels that are connecting,
\* connected, or waiting to reconnect
NextBatch ==
    /\ UNCHANGED evars
    /\ \/ \E configs \in Batches, o \in ConnectOutcomes : startTunnels(MaxStarts + 2, configs, o)
       \/ \E s \in Slots : OnSpawn(s)
       \/ \E s \in Slots : OnConfirmTimer(s)

\* one tunnel whose every subprocess starts and exits before the
\* confirmation timer fires; no startTunnel or stopTunnel after the first
NextDoomed ==
    /\ UNCHANGED evars
    /\ \/ \E c \in Configs : tunnels = EmptyMap /\ startTunnel(MaxStarts, c, "spawned")
       \/ \E s \in Slots : OnSpawn(s)
       \/ \E s \in Slots : st[s].confirm /\ OnExit(s)
       \/ \E s \in Slots, chunk \in Chunks : OnStderr(s, chunk)
       \/ \E s \in Slots : st[s].process = Null /\ OnConfirmTimer(s)
       \/ \E s \in Slots : OnReconnectTimer(s, "spawned")

\* the supervisor on a platform that delivers 'exit' after 'error'; the
\* callbacks of orphaned timers are not explored
NextErrorExit ==
    \/ NextUpTo(MaxStarts)
    \/ UNCHANGED evars /\ \E s \in Slots : st[s].orphans < MaxOrphans /\ OnExitAfterError(s)

Next == NextUpTo(MaxStarts)
NextPair == NextUpTo(MaxStarts + 1)

Spec == Init /\ [][Next]_vars
SpecPair == Init /\ [][NextPair]_vars
SpecEngine == Init /\ [][NextEngine]_vars
SpecBind == Init /\ [][NextBind]_vars
SpecSystem == Init /\ [][NextSystem]_vars
SpecStatus == Init /\ [][NextStatus]_vars
SpecKeys == Init /\ [][NextKeys]_vars
SpecRouting == Init /\ [][NextRouting]_vars
SpecHttp == Init /\ [][NextHttp]_vars
SpecBatch == Init /\ [][NextBatch]_vars
SpecErrorExit == Init /\ [][NextErrorExit]_vars
\* events that are due are delivered and timers that are armed fire
SpecDoomed ==
    /\ Init
    /\ [][NextDoomed]_vars
    /\ WF_vars(UNCHANGED evars /\ \E s \in Slots : OnSpawn(s))
    /\ WF_vars(UNCHANGED evars /\ \E s \in Slots : st[s].confirm /\ OnExit(s))
    /\ WF_vars(UNCHANGED evars /\ \E s \in Slots : st[s].process = Null /\ OnConfirmTimer(s))
    /\ WF_vars(UNCHANGED evars /\ \E s \in Slots : OnReconnectTimer(s, "spawned"))
\* an armed interval fires every 30 s for as long as it is not cleared
SpecSession ==
    /\ Init
    /\ [][NextSession]_vars
    /\ \A c \in 1..MaxSessions : WF_vars(c <= Len(chan) /\ OnPingInterval(c))

\* ------------------------------------------------------------------------
\* Vocabulary of the properties
\* ------------------------------------------------------------------------
Untracked == Slots \ Tracked
Alive(s) == st[s].process.phase \in {"spawning", "up"}
ClassifiedErrors == {ErrPortInUse, ErrAuth, ErrRefused}

\* this step ran the 'exit' handler, the 'error' handler or connect()'s catch
\* block on the TunnelState s
ExitStep(s) == st[s].process.phase = "up" /\ st'[s].process = Null
ErrorStep(s) == st[s].process.phase = "failing" /\ st'[s].process.phase = "failed"
\* the reconnect callback ran: its timer is spent, or already re-armed by the catch block
ReconnectStep(s) ==
    /\ st[s].reconnectTimer = "armed"
    /\ \/ st'[s].reconnectTimer = "fired"
       \/ st'[s].reconnectAttempts = st[s].reconnectAttempts + 1
ThrowStep(s) == ReconnectStep(s) /\ st'[s].process = st[s].process
FailureStep(s) == ExitStep(s) \/ ErrorStep(s) \/ ThrowStep(s)
ConfirmStep(s) == st[s].confirm /\ ~st'[s].confirm
\* this step removed s from the map (stopTunnel, stopAll, or startTunnel on its key)
StoppedStep(s) == s \in Tracked /\ s \notin Tracked'

Exhausted(s) == st[s].status = "error" /\ st[s].lastError = ErrMax

\* ------------------------------------------------------------------------
\* C1: for each tunnel key at most one subprocess started by the supervisor
\* is alive at any instant.
\* ------------------------------------------------------------------------
C1_OneLiveSubprocessPerKey ==
    \A k \in Keys : Cardinality({s \in Slots : KeyOf(s) = k /\ Alive(s)}) <= 1

\* ------------------------------------------------------------------------
\* C2: once stopTunnel has removed a tunnel that had a live subprocess, no
\* reconnect timer is scheduled and no subprocess is spawned for the removed
\* tunnel; the exit of the terminated subprocess starts no reconnect.
\* ------------------------------------------------------------------------
C2_StoppedTunnelStaysStopped ==
    [][\A s \in Slots :
         /\ (StoppedStep(s) /\ Alive(s)) =>
              /\ st'[s].process.killed
              /\ st'[s].reconnectTimer # "armed"
              /\ Len(st') = Len(st) => KeyOf(s) \notin DOMAIN tunnels'
         /\ (s \in Untracked /\ Alive(s) /\ st[s].process.killed) =>
              /\ st'[s].reconnectTimer # "armed"
              /\ ~ReconnectStep(s)]_vars

\* ------------------------------------------------------------------------
\* C3: stopTunnel on a tunnel that is connecting with a pending reconnect
\* timer and no subprocess cancels the timer and untracks the key; afterwards
\* the callback never runs and no subprocess is spawned for that tunnel.
\* ------------------------------------------------------------------------
C3_StopCancelsPendingReconnect ==
    [][\A s \in Slots :
         /\ ( /\ StoppedStep(s)
              /\ st[s].status = "connecting"
              /\ st[s].reconnectTimer = "armed"
              /\ st[s].process = Null )
            => /\ st'[s].reconnectTimer = "cleared"
               /\ st'[s].process = Null
               /\ Len(st') = Len(st) => KeyOf(s) \notin DOMAIN tunnels'
         /\ ( /\ s \in Untracked
              /\ st[s].reconnectTimer = "cleared"
              /\ st[s].process = Null )
            => /\ st'[s].reconnectTimer = "cleared"
               /\ st'[s].process = Null
               /\ st'[s].status = st[s].status
               /\ st'[s].reconnectAttempts = st[s].reconnectAttempts]_vars

C3_Witness ==
    \E s \in Untracked :
        /\ st[s].status = "connecting"
        /\ st[s].reconnectTimer = "cleared"
        /\ st[s].process = Null
        /\ st[s].reconnectAttempts >= 1

\* ------------------------------------------------------------------------
\* C4: after stopAll() the map is empty, every pending reconnect timer is
\* cancelled and every live subprocess has been signalled.
\* ------------------------------------------------------------------------
C4_StopAllLeavesNothingPending ==
    [][last' = "stopAll" =>
         /\ tunnels' = EmptyMap
         /\ \A s \in Slots :
              /\ st'[s].reconnectTimer # "armed"
              /\ st'[s].process.phase \in {"spawning", "up"} => st'[s].process.killed]_vars

\* ------------------------------------------------------------------------
\* C5: a failure arriving when the attempt counter is at the cap puts the
\* tunnel in status error with lastError 'Max reconnect attempts reached';
\* from then on it has no pending reconnect timer, gets no subprocess and
\* keeps status error.
\* ------------------------------------------------------------------------
C5_ExhaustedIsTerminal ==
    /\ [](\A s \in Slots : Exhausted(s) =>
             /\ st[s].reconnectTimer # "armed"
             /\ st[s].process.phase \notin {"spawning", "failing", "up"})
    /\ [][\A s \in Slots :
            /\ (FailureStep(s) /\ st[s].reconnectAttempts >= maxReconnectAttempts)
                  => Exhausted(s)'
            /\ Exhausted(s) =>
                  /\ st'[s].status = "error"
                  /\ st'[s].reconnectTimer = st[s].reconnectTimer
                  /\ st'[s].process = st[s].process]_vars

C5_Witness ==
    \E s \in Slots : Exhausted(s) /\ st[s].reconnectAttempts = maxReconnectAttempts

\* ------------------------------------------------------------------------
\* C6: the attempt counter changes only by +1 when a reconnect is scheduled
\* and by a reset to 0 at a confirmed transition to connected.
\* ------------------------------------------------------------------------
C6_CounterChanges ==
    [][\A s \in Slots :
         /\ (FailureStep(s) /\ st[s].reconnectAttempts < maxReconnectAttempts)
               => /\ st'[s].reconnectTimer = "armed"
                  /\ st'[s].reconnectAttempts = st[s].reconnectAttempts + 1
         /\ (ConfirmStep(s) /\ st'[s].status = "connected" /\ st[s].status # "connected")
               => st'[s].reconnectAttempts = 0
         /\ st'[s].reconnectAttempts # st[s].reconnectAttempts
               => \/ /\ FailureStep(s)
                     /\ st'[s].reconnectAttempts = st[s].reconnectAttempts + 1
                  \/ /\ ConfirmStep(s)
                     /\ st'[s].status = "connected"
                     /\ st'[s].reconnectAttempts = 0]_vars

C6_Witness ==
    \E s \in Slots :
        /\ notice = "info"
        /\ st[s].status = "connected"
        /\ st[s].reconnectTimer = "fired"
        /\ st[s].reconnectAttempts = 0

\* ------------------------------------------------------------------------
\* C7: every attempt counter stays within 0..maxReconnectAttempts.
\* ------------------------------------------------------------------------
C7_CounterInRange ==
    \A s \in Slots :
        st[s].reconnectAttempts >= 0 /\ st[s].reconnectAttempts <= maxReconnectAttempts

C7_Witness ==
    \E s \in Slots : st[s].reconnectAttempts = maxReconnectAttempts /\ st[s].reconnectTimer = "armed"

\* ------------------------------------------------------------------------
\* C8: the reconnect scheduled as attempt k waits min(3000 * 1.5^(k-1), 60000)
\* ms: 3000 for k = 1, 10125 for k = 4, non-decreasing in k, within
\* [3000, 60000].  Delays are in 1/Scale ms.
\* ------------------------------------------------------------------------
C8_BackoffDelay ==
    \A s \in Slots : st[s].reconnectTimer = "armed" =>
        LET k == st[s].reconnectAttempts
            d == st[s].timerDelay
        IN /\ k \in 1..maxReconnectAttempts
           /\ IF 3000 * 3^(k - 1) <= 60000 * 2^(k - 1)
              THEN d * 2^(k - 1) = 3000 * Scale * 3^(k - 1)
              ELSE d = 60000 * Scale
           /\ k = 1 => d = 3000 * Scale
           /\ k = 4 => d = 10125 * Scale
           /\ d >= 3000 * Scale /\ d <= 60000 * Scale
           /\ \A j \in 1..k : ReconnectDelay(j) <= d

C8_Witness ==
    \E s \in Slots :
        /\ st[s].reconnectTimer = "armed"
        /\ st[s].reconnectAttempts = 4
        /\ st[s].timerDelay = 10125 * Scale

\* ------------------------------------------------------------------------
\* C9: on subprocess exit or spawn failure the status becomes disconnected
\* if the tunnel was connected and error otherwise, and a reconnect is
\* scheduled unless the cap is reached.
\* ------------------------------------------------------------------------
C9_FailureSetsStatus ==
    [][\A s \in Slots : FailureStep(s) =>
         /\ st'[s].status = IF st[s].status = "connected" THEN "disconnected" ELSE "error"
         /\ st[s].reconnectAttempts < maxReconnectAttempts => st'[s].reconnectTimer = "armed"]_vars

\* ------------------------------------------------------------------------
\* C10: a stderr chunk with a known failure phrase surfaces the tunnel in
\* getStatus with status error and the classified last-error message.
\* ------------------------------------------------------------------------
C10_ClassifiedFailureIsError ==
    [][\A s \in Slots :
         ( /\ s \in Tracked
           /\ Alive(s)
           /\ st'[s].lastError \in ClassifiedErrors
           /\ st'[s].lastError # st[s].lastError )
         => \E i \in 1..Len(getStatus') :
               /\ getStatus'[i].host = KeyOf(s)
               /\ getStatus'[i].status = "error"
               /\ getStatus'[i].error = st'[s].lastError]_vars

\* ------------------------------------------------------------------------
\* C11: a step of one tunnel other than startTunnel and stopAll (exit, spawn
\* error, stderr, cap reached, its timers, its stopTunnel) leaves every other
\* TunnelState, every other map entry, the engine's session set, its bound
\* port and its server unchanged; and while one tunnel waits in backoff the
\* pending events of every other tunnel and an engine request can be processed.
\* ------------------------------------------------------------------------
TunnelEventStep(s) ==
    /\ Len(st') = Len(st)
    /\ last' # "stopAll"
    /\ st'[s] # st[s] \/ StoppedStep(s)

C12_StartNeverFailsFailureRecorded ==
    [][\A s \in 1..Len(st') :
         /\ s \notin Slots =>
               /\ getTunnelKey(st'[s].config) \in DOMAIN tunnels'
               /\ tunnels'[getTunnelKey(st'[s].config)] = s
               /\ \/ st'[s].process.phase \in {"spawning", "failing"}
                  \/ /\ st'[s].status = "error"
                     /\ st'[s].lastError # NoError
                     /\ st'[s].reconnectTimer = "armed"
         /\ ( /\ s \in Slots
              /\ st[s].status = "connecting"
              /\ st[s].reconnectAttempts < maxReconnectAttempts
              /\ FailureStep(s) )
            => /\ st'[s].lastError # NoError
               /\ st'[s].reconnectTimer = "armed"
               /\ st'[s].reconnectAttempts = st[s].reconnectAttempts + 1]_vars

\* ------------------------------------------------------------------------
\* Vocabulary of the engine properties
\* ------------------------------------------------------------------------
\* this step received the body of request r / completed request r
ArrivalStep(r) == Len(reqs) = r - 1 /\ Len(reqs') = r
CompletionStep(r) ==
    /\ r \in 1..Len(reqs')
    /\ reqs'[r].phase = "done"
    /\ r \in 1..Len(reqs) => reqs[r].phase = "running"
Delivery(r) == [event |-> "message", req |-> r, data |-> reqs[r].response]
RECURSIVE ReqsOf(_)
ReqsOf(inbox) == IF inbox = <<>> THEN <<>> ELSE <<Head(inbox).req>> \o ReqsOf(Tail(inbox))
NoDuplicate(seq) == \A i, j \in 1..Len(seq) : seq[i] = seq[j] => i = j
IsSegment(part, whole) ==
    \E i \in 0..Len(whole) : \E j \in i..Len(whole) : part = SubSeq(whole, i + 1, j)

C14_RoutedResponseWrittenAndBroadcast ==
    [][\A r \in 1..Len(reqs') :
         /\ (ArrivalStep(r) /\ handleMessage(reqs'[r].body).kind = "respond")
               => /\ reqs'[r].phase = "done"
                  /\ reqs'[r].status = 200
                  /\ reqs'[r].response = processMessage(JSONparse(reqs'[r].body).message).response
         /\ (CompletionStep(r) /\ reqs'[r].status = 200)
               => \A c \in 1..Len(chan) :
                     IF c \in sseClients
                     THEN chan'[c].inbox = Append(chan[c].inbox,
                              [event |-> "message", req |-> r, data |-> reqs'[r].response])
                     ELSE chan'[c].inbox = chan[c].inbox]_vars

\* an open session has received an unknown-tool error and a tool error, a
\* closed one has received nothing
C14_Witness ==
    \E c \in sseClients, d \in 1..Len(chan) :
        /\ chan[d].state = "closed"
        /\ chan[d].inbox = <<>>
        /\ Len(chan[c].inbox) = 2
        /\ chan[c].inbox[1].data.code = InvalidParams
        /\ chan[c].inbox[2].data.code = ToolExecutionError
        /\ \A r \in 1..Len(reqs) : reqs[r].status = 200

\* ------------------------------------------------------------------------
\* C15: a POST /message whose body JSON.parse rejects is answered with error
\* code -32700 and id null, invokes no capability, is broadcast to no session
\* and changes nothing in the engine.
\* ------------------------------------------------------------------------
C15_UnparsableBodyIsParseError ==
    [][\A r \in 1..Len(reqs') :
         (ArrivalStep(r) /\ JSONparse(reqs'[r].body).threw)
           => /\ reqs'[r].phase = "done"
              /\ reqs'[r].response.code = ParseErrorCode
              /\ reqs'[r].response.id = NullId
              /\ reqs'[r].response.result = NoResult
              /\ calls' = calls
              /\ chan' = chan
              /\ issued' = issued
              /\ SubSeq(reqs', 1, Len(reqs)) = reqs
              /\ UNCHANGED <<server, port, promise, conflicts, sseClients, now>>]_vars

\* an unparsable body was answered while a session was open and a tool call
\* was in flight
C15_Witness ==
    /\ sseClients # {}
    /\ Len(reqs) = 2
    /\ reqs[1].phase = "running"
    /\ JSONparse(reqs[2].body).threw
    /\ reqs[2].status = 400
    /\ reqs[2].response.code = ParseErrorCode

\* ------------------------------------------------------------------------
\* C16: a tools/call that names a tool outside the catalogue is answered with
\* error -32602 and invokes no capability, for every such name and in every
\* state of the engine.
\* ------------------------------------------------------------------------
UnregisteredNames ==
    {"no_such_tool", "", "undefined", "Speak", "play", "browser_close", "tools/list"} \ ToolNames

C16_UnknownToolIsInvalidParams ==
    /\ (\A name \in UnregisteredNames, arguments \in {"undefined", "object", "null"} :
             handleToolCall("1", Call(name, arguments)) =
                 Respond(Failure("1", InvalidParams, <<"Unknown tool: ", name>>), "none"))
    /\ [][\A r \in 1..Len(reqs') :
             ( /\ ArrivalStep(r)
               /\ JSONparse(reqs'[r].body).message.method = "tools/call"
               /\ reqs'[r].body.json = "object"
               /\ reqs'[r].body.value.params.present
               /\ reqs'[r].body.value.params.name \notin ToolNames )
             => /\ reqs'[r].phase = "done"
                /\ reqs'[r].response.code = InvalidParams
                /\ reqs'[r].response.id = reqs'[r].body.value.id
                /\ reqs'[r].response.result = NoResult
                /\ calls' = calls]_vars

\* an unknown tool was called while a capability was running for another
\* request; only that one capability has been invoked
C16_Witness ==
    /\ Len(reqs) = 2
    /\ reqs[1].phase = "running"
    /\ reqs[2].body.value.params.name \in UnregisteredNames
    /\ reqs[2].response.code = InvalidParams
    /\ Len(calls) = 1

\* ------------------------------------------------------------------------
\* C17: a tools/call on a registered tool is answered with error -32000 when
\* the capability fails and with a result of one text content block when it
\* succeeds; a failed capability never yields a result.
\* ------------------------------------------------------------------------
C17_CapabilityFailureIsToolError ==
    [][\A r \in 1..Len(reqs) :
         (reqs[r].phase = "running" /\ reqs'[r].phase = "done")
           => /\ reqs'[r].outcome = "failed"
                   => /\ reqs'[r].response.code = ToolExecutionError
                      /\ reqs'[r].response.result = NoResult
              /\ reqs'[r].outcome = "ok"
                   => /\ reqs'[r].response.code = 0
                      /\ reqs'[r].response.result.kind = "content"]_vars

\* ------------------------------------------------------------------------
\* C18: no two sessions that are open at the same time were given the same
\* session id in their endpoint event.
\* ------------------------------------------------------------------------
C18_SessionIdsUnique ==
    \A c \in sseClients, d \in sseClients : chan[c].endpoint = chan[d].endpoint => c = d

\* ------------------------------------------------------------------------
\* C19: the session set is the set of channels opened by GET /sse that were
\* neither disconnected by their client nor ended by stop(): GET /sse adds
\* exactly the new channel, a disconnect removes exactly its channel, stop()
\* ends every open channel and empties the set.
\* ------------------------------------------------------------------------
OpenChannels == {c \in 1..Len(chan) : chan[c].state = "open"}

C19_SessionSetIsOpenChannels ==
    /\ [](sseClients = OpenChannels)
    /\ [][/\ Len(chan') # Len(chan) =>
               /\ Len(chan') = Len(chan) + 1
               /\ sseClients' = sseClients \cup {Len(chan')}
               /\ Cardinality(sseClients') = Cardinality(sseClients) + 1
          /\ \A c \in 1..Len(chan) :
               (chan[c].state = "open" /\ chan'[c].state = "closed") =>
                   (c \in sseClients /\ sseClients' = sseClients \ {c})
          /\ (server # "null" /\ server' = "null") =>
               /\ sseClients' = {}
               /\ \A c \in sseClients : chan'[c].state = "ended"
               /\ \A c \in 1..Len(chan) : c \notin sseClients => chan'[c] = chan[c]
          /\ sseClients' # sseClients =>
               \/ Len(chan') = Len(chan) + 1
               \/ \E c \in sseClients : chan'[c].state = "closed" /\ sseClients' = sseClients \ {c}
               \/ server' = "null"]_vars

\* stop() has ended an open channel after another one had been disconnected
C19_Witness ==
    /\ server = "null"
    /\ sseClients = {}
    /\ \E c \in 1..Len(chan), d \in 1..Len(chan) :
          chan[c].state = "ended" /\ chan[d].state = "closed"

\* ------------------------------------------------------------------------
\* C20: the port moves by exactly one per bind conflict and by nothing else,
\* so start() resolves with the first port P of 9847, 9848, ... that was not
\* taken; from then on getPort() is P and GET /health answers 200 with
\* {status:"ok", port:P}.
\* ------------------------------------------------------------------------
C20_FirstFreePortIsReported ==
    /\ [](/\ conflicts = DefaultPort..(port - 1)
          /\ promise.state = "resolved" =>
                /\ promise.value \notin conflicts
                /\ \A q \in DefaultPort..(promise.value - 1) : q \in conflicts
                /\ getPort = promise.value
                /\ Health = [status |-> 200, body |-> [status |-> "ok", port |-> promise.value]])
    /\ [][port' # port =>
             /\ server = "binding"
             /\ port' = port + 1
             /\ conflicts' = conflicts \cup {port}]_vars

\* start() resolved with 9849 after 9847 and 9848 were found taken
C20_Witness ==
    /\ server = "listening"
    /\ promise = [state |-> "resolved", value |-> DefaultPort + 2]
    /\ conflicts = {DefaultPort, DefaultPort + 1}
    /\ Health.body.port = DefaultPort + 2

\* ------------------------------------------------------------------------
\* C21: every response to a request whose body parsed to a request object
\* carries the id of that request and exactly one of result and error; an
\* error has a numeric code and a message.
\* ------------------------------------------------------------------------
C21_ResponseCarriesIdAndOneMember ==
    \A r \in 1..Len(reqs) :
        (reqs[r].phase = "done" /\ reqs[r].body.json = "object") =>
            LET response == reqs[r].response
            IN /\ response.id = reqs[r].body.value.id
               /\ (response.code = 0) # (response.result = NoResult)
               /\ response.code # 0 =>
                     /\ response.code \in Int
                     /\ response.message # <<"", "">>

\* ------------------------------------------------------------------------
\* C22: initialize, notifications/initialized, tools/list and ping are
\* answered with a success result and invoke no capability; every method
\* name other than these and tools/call is answered with error -32601 and
\* invokes no capability.
\* ------------------------------------------------------------------------
AnsweredInPlace == {"initialize", "notifications/initialized", "tools/list", "ping"}
OtherMethods ==
    {"resources/list", "", "undefined", "Ping", "tools/List", "prompts/list", "initialized",
     "tools/call/", "tools", "play_attention"}

C22_MethodRouting ==
    /\ (\A method \in AnsweredInPlace \cup OtherMethods,
             params \in {NoParams, Call("speak", "object")} :
             LET step == processMessage(Msg("1", method, params))
             IN /\ step.kind = "respond"
                /\ step.invoked = "none"
                /\ step.response.id = "1"
                /\ IF method \in AnsweredInPlace
                   THEN step.response.code = 0 /\ step.response.result # NoResult
                   ELSE /\ step.response.code = MethodNotFound
                        /\ step.response.result = NoResult)
    /\ [][\A r \in 1..Len(reqs') :
             ( /\ ArrivalStep(r)
               /\ reqs'[r].body.json = "object"
               /\ reqs'[r].body.value.method # "tools/call" )
             => /\ reqs'[r].phase = "done"
                /\ reqs'[r].tool = "none"
                /\ calls' = calls
                /\ IF reqs'[r].body.value.method \in AnsweredInPlace
                   THEN /\ reqs'[r].response.code = 0
                        /\ reqs'[r].response.result.kind \in {"initialize", "empty", "tools"}
                   ELSE /\ reqs'[r].response.code = MethodNotFound
                        /\ reqs'[r].response.result = NoResult]_vars

\* a ping was answered and a method with another spelling refused while a
\* session was open; no capability ran
C22_Witness ==
    /\ sseClients # {}
    /\ Len(reqs) = 2
    /\ reqs[1].body.value.method = "ping"
    /\ reqs[1].response.code = 0
    /\ reqs[2].body.value.method = "Ping"
    /\ reqs[2].response.code = MethodNotFound
    /\ calls = <<>>

\* ------------------------------------------------------------------------
\* C23: every HTTP request is answered exactly once and the engine goes on
\* serving: 200 for GET /health and for every POST /message whose body
\* parses, 400 for a malformed body, 404 for every other method and path
\* (GET /sse opens a push channel and is no request of this kind).
\* ------------------------------------------------------------------------
C23_EveryRequestAnswered ==
    /\ [][\A r \in 1..Len(reqs') :
             /\ ArrivalStep(r) =>
                   LET q == reqs'[r]
                       path == urlPath(q.url)
                   IN CASE q.verb = "GET" /\ path = <<"/health">> ->
                               q.phase = "done" /\ q.status = 200
                        [] q.verb = "POST" /\ path = <<"/message">> ->
                               IF q.body.json = "malformed"
                               THEN q.phase = "done" /\ q.status = 400
                               ELSE q.phase = "done" => q.status = 200
                        [] q.verb = "GET" /\ path = <<"/sse">> -> TRUE
                        [] OTHER -> q.phase = "done" /\ q.status = 404
             /\ (CompletionStep(r) /\ ~ArrivalStep(r)) => reqs'[r].status = 200
             /\ (r \in 1..Len(reqs) /\ reqs[r].phase = "done") => reqs'[r] = reqs[r]]_vars
    /\ []((server = "listening" /\ Len(reqs) < MaxRequests) =>
             /\ ENABLED handleRequest("GET", <<"/health">>)
             /\ ENABLED PostMessage([json |-> "object", value |-> Msg("1", "ping", NoParams)]))

\* ------------------------------------------------------------------------
\* C24: tools/list answers with the same catalogue, in the same order and
\* with pairwise distinct names, whatever requests, tool calls and session
\* opens and closes came before.
\* ------------------------------------------------------------------------
ListRequests == {r \in 1..Len(reqs) : reqs[r].body.json = "object" /\ reqs[r].body.value.method = "tools/list"}

C24_CatalogueIsConstant ==
    /\ [](\A r \in ListRequests :
             /\ reqs[r].phase = "done"
             /\ reqs[r].response.code = 0
             /\ reqs[r].response.result.kind = "tools"
             /\ reqs[r].response.result.tools = TOOLS
             /\ NoDuplicate(reqs[r].response.result.tools)
             /\ \A q \in ListRequests : reqs[q].response.result = reqs[r].response.result)
    /\ [][\A r \in ListRequests' :
             ArrivalStep(r) => /\ calls' = calls
                               /\ UNCHANGED <<server, port, sseClients>>]_vars

\* tools/list was answered after a capability had run for an earlier
\* tools/call and a session had been opened and closed
C24_Witness ==
    /\ Len(reqs) = 2
    /\ reqs[1].phase = "done"
    /\ Len(calls) = 1
    /\ ListRequests = {2}
    /\ reqs[2].response.result.tools = TOOLS
    /\ \E c \in 1..Len(chan) : chan[c].state = "closed"

\* ------------------------------------------------------------------------
\* C25: every tool the README documents under 'MCP Tools' is in the
\* catalogue tools/list returns, and a tools/call naming it is dispatched to
\* a capability.
\* ------------------------------------------------------------------------
ReadmeTools ==
    {"play_notification", "show_message", "play_attention", "browser_navigate",
     "browser_screenshot", "browser_click", "browser_fill", "browser_select", "browser_hover",
     "browser_evaluate", "browser_console", "browser_list_pages", "browser_switch_page", "speak"}

C25_DocumentedToolsAreServed ==
    [][\A r \in 1..Len(reqs') :
         (ArrivalStep(r) /\ reqs'[r].body.json = "object") =>
            LET message == reqs'[r].body.value
            IN /\ message.method = "tools/list" =>
                     LET listed == reqs'[r].response.result.tools
                     IN ReadmeTools \subseteq {listed[i] : i \in 1..Len(listed)}
               /\ ( /\ message.method = "tools/call"
                    /\ message.params.present
                    /\ message.params.name \in ReadmeTools
                    /\ message.params.arguments # "null" )
                  => /\ calls' = Append(calls, [req |-> r, tool |-> message.params.name])
                     /\ reqs'[r].response.code # InvalidParams]_vars

\* ------------------------------------------------------------------------
\* C26: the key of a config is its host, ':' and its remotePort, 9847 when
\* remotePort is absent: {host:"a@h:2200", remotePort:9000} gives
\* "a@h:2200:9000" and {host:"a@h"} gives "a@h:9847".  A tunnel is tracked
\* under the key of its config; starting a config leaves the entries of all
\* other keys as they are and replaces the entry of its own key, so configs
\* with one key share one entry.
\* ------------------------------------------------------------------------
C26_TunnelKey ==
    /\ [](/\ getTunnelKey([host |-> "a@h:2200", remotePort |-> 9000]) = "a@h:2200:9000"
          /\ getTunnelKey([host |-> "a@h", remotePort |-> 0]) = "a@h:9847"
          /\ \A k \in DOMAIN tunnels : KeyOf(tunnels[k]) = k
          /\ \A s \in Tracked, t \in Tracked : KeyOf(s) = KeyOf(t) => s = t
          /\ \A s \in Tracked, t \in Tracked :
                ( \/ st[s].config.host # st[t].config.host
                  \/ ( /\ st[s].config.remotePort # st[t].config.remotePort
                       /\ {st[s].config.remotePort, st[t].config.remotePort} # {0, DefaultPort} ) )
                => /\ s # t
                   /\ \E j \in DOMAIN tunnels, k \in DOMAIN tunnels :
                         j # k /\ tunnels[j] = s /\ tunnels[k] = t)
    /\ [][Len(st') = Len(st) + 1 =>
             LET new == Len(st')
                 key == st'[new].config.host \o ":" \o
                          (CASE st'[new].config.remotePort = 0 -> "9847"
                             [] st'[new].config.remotePort = 9000 -> "9000"
                             [] st'[new].config.remotePort = 9847 -> "9847")
             IN /\ DOMAIN tunnels' = DOMAIN tunnels \cup {key}
                /\ tunnels'[key] = new
                /\ \A k \in DOMAIN tunnels : k # key => tunnels'[k] = tunnels[k]]_vars

\* {host:"a@h"} and {host:"a@h", remotePort:9847} were started one after the
\* other and share the entry "a@h:9847", next to the entry "a@h:2200:9000"
C26_Witness ==
    /\ DOMAIN tunnels = {"a@h:9847", "a@h:2200:9000"}
    /\ \E s \in Untracked, t \in Tracked :
          /\ st[s].config = [host |-> "a@h", remotePort |-> 0]
          /\ st[t].config = [host |-> "a@h", remotePort |-> DefaultPort]
          /\ tunnels["a@h:9847"] = t
          /\ s < t

\* ------------------------------------------------------------------------
\* C27: getStatus() returns exactly one entry for every key tracked in the
\* map and none for any other key, each entry with the current status and
\* last error of the tunnel tracked under that key; a call changes no
\* supervisor state.
\* ------------------------------------------------------------------------
C27_StatusListsTrackedTunnels ==
    /\ [](/\ \A k \in DOMAIN tunnels :
                Cardinality({i \in 1..Len(getStatus) : getStatus[i].host = k}) = 1
          /\ \A i \in 1..Len(getStatus) :
                /\ getStatus[i].host \in DOMAIN tunnels
                /\ getStatus[i].status = st[tunnels[getStatus[i].host]].status
                /\ getStatus[i].error = st[tunnels[getStatus[i].host]].lastError)
    /\ [][last' = "getStatus" =>
             /\ UNCHANGED <<tunnels, st, notice>>
             /\ getStatus' = getStatus]_vars

\* getStatus() was called with a connected tunnel tracked whose stderr had
\* been classified, next to a tunnel in error after a spawn failure
C27_Witness ==
    /\ last = "getStatus"
    /\ Len(getStatus) = 2
    /\ \E i, j \in 1..2 :
          /\ getStatus[i].status = "connected"
          /\ getStatus[i].error \in ClassifiedErrors
          /\ getStatus[j].status = "error"
          /\ getStatus[j].error = ErrSpawn

\* ------------------------------------------------------------------------
\* C28: every change of a tunnel's status is connecting->connected (at the
\* confirmation timer), connected->disconnected (at an exit),
\* disconnected/error->connecting (at the reconnect timer) or
\* connecting->error (at a failure); a reconnect callback whose spawn throws
\* makes the two changes ->connecting->error in one go.  No tunnel moves from
\* connected to connecting or error, or from disconnected to connected.
\* ------------------------------------------------------------------------
Transitions ==
    {<<"connecting", "connected">>, <<"connected", "disconnected">>,
     <<"disconnected", "connecting">>, <<"error", "connecting">>, <<"connecting", "error">>}

C29_ConfirmOnlyLiveSubprocess ==
    [][\A s \in Slots :
         /\ ConfirmStep(s) =>
               IF st[s].process.phase = "up" /\ ~st[s].process.killed
               THEN /\ st'[s].status = "connected"
                    /\ st'[s].reconnectAttempts = 0
                    /\ st[s].status = "connecting"
               ELSE /\ st'[s].status = st[s].status
                    /\ st'[s].status # "connected"
                    /\ st'[s].reconnectAttempts = st[s].reconnectAttempts
         /\ (st'[s].status = "connected" /\ st[s].status # "connected") =>
               /\ ConfirmStep(s)
               /\ st[s].process.phase = "up"
               /\ ~st[s].process.killed
               /\ st'[s].process = st[s].process]_vars

\* the confirmation timer has fired on a subprocess that stopTunnel had
\* signalled and that has not exited yet: the tunnel was not marked connected
C29_Witness ==
    \E s \in Untracked :
        /\ ~st[s].confirm
        /\ st[s].process.phase = "up"
        /\ st[s].process.killed
        /\ st[s].status = "connecting"

\* ------------------------------------------------------------------------
\* C30: a stderr chunk with none of the known failure phrases in it, and any
\* chunk on standard output, leaves the tunnel's status, last error, attempt
\* counter, subprocess handle and pending timers as they are.
\* ------------------------------------------------------------------------
SameTunnel(s) ==
    /\ st'[s].status = st[s].status
    /\ st'[s].lastError = st[s].lastError
    /\ st'[s].reconnectAttempts = st[s].reconnectAttempts
    /\ st'[s].process = st[s].process
    /\ st'[s].reconnectTimer = st[s].reconnectTimer
    /\ st'[s].timerDelay = st[s].timerDelay
    /\ st'[s].confirm = st[s].confirm

C30_OutputLeavesStateAlone ==
    [][/\ \A s \in Slots :
            /\ OnStdout(s) => SameTunnel(s)
            /\ \A chunk \in Chunks :
                  (chunk \cap Phrases = {} /\ OnStderr(s, chunk)) => SameTunnel(s)
       /\ last' = "output" =>
            /\ Len(st') = Len(st)
            /\ \A s \in Slots : SameTunnel(s)
            /\ tunnels' = tunnels]_vars

\* output with no known phrase arrived from the subprocess of a connected
\* tunnel whose last error had been classified before: the error is kept
C30_Witness ==
    /\ last = "output"
    /\ \E s \in Tracked :
          /\ st[s].status = "connected"
          /\ st[s].process.phase = "up"
          /\ st[s].lastError \in ClassifiedErrors

\* ------------------------------------------------------------------------
\* C31: on every push channel the endpoint event is written exactly once
\* and is the first event on the wire: no 'message' broadcast and no
\* keep-alive ping precedes it, whatever requests are in flight when the
\* channel opens; what has been written stays, later events are appended.
C31_EndpointFirstAndOnce ==
    /\ [](\A c \in 1..Len(chan) :
            /\ chan[c].wire # <<>>
            /\ chan[c].wire[1] = "endpoint"
            /\ Len(SelectSeq(chan[c].wire, LAMBDA e : e = "endpoint")) = 1)
    /\ [][\A c \in 1..Len(chan) :
            /\ Len(chan'[c].wire) >= Len(chan[c].wire)
            /\ SubSeq(chan'[c].wire, 1, Len(chan[c].wire)) = chan[c].wire]_vars

\* a channel opened while a tools/call was waiting for its capability: the
\* response of that call and a keep-alive follow the endpoint event
C31_Witness ==
    \E c \in sseClients :
        /\ chan[c].wire = <<"endpoint", "message", "ping">>
        /\ \E r \in 1..Len(reqs) : reqs[r].tool = "speak" /\ chan[c].inbox[1].req = r

Enabled(configs) == SelectSeq(configs, LAMBDA e : e.enabled # "false")
TornDown(state) ==
    /\ state.reconnectTimer # "armed"
    /\ state.process = Null \/ state.process.killed \/ state.process.phase = "failing"
C33_StartTunnelsStartsEnabledInOrder ==
    [][last' = "startTunnels" =>
        \A configs \in Batches, o \in ConnectOutcomes :
            startTunnels(MaxStarts + 2, configs, o) =>
                LET E == Enabled(configs)
                    n == Len(st)
                    keyAt(i) == getTunnelKey(E[i].config)
                IN /\ Len(st') = n + Len(E)
                   /\ \A i \in 1..Len(E) : st'[n + i].config = E[i].config
                   /\ DOMAIN tunnels' = DOMAIN tunnels \cup {keyAt(i) : i \in 1..Len(E)}
                   /\ \A i \in 1..Len(E) :
                         IF \E j \in (i + 1)..Len(E) : keyAt(j) = keyAt(i)
                         THEN /\ n + i \notin Tracked'
                              /\ TornDown(st'[n + i])
                         ELSE tunnels'[keyAt(i)] = n + i
                   /\ \A s \in Tracked :
                         IF \E i \in 1..Len(E) : keyAt(i) = KeyOf(s)
                         THEN s \notin Tracked' /\ TornDown(st'[s])
                         ELSE s \in Tracked' /\ st'[s] = st[s]]_vars

\* startTunnels([{a@h, enabled:false}, {a@h}]) and then
\* startTunnels([{a@h, enabled:true}, {a@h}]): the first call created one
\* TunnelState, the second two; only the last is tracked, the others signalled
C33_Witness ==
    /\ Len(st) = 3
    /\ last = "startTunnels"
    /\ \A s \in 1..3 : st[s].config = [host |-> "a@h", remotePort |-> 0]
    /\ Tracked = {3}
    /\ st[1].process.killed /\ st[1].status = "connected"
    /\ st[2].process.killed /\ st[2].process.phase = "spawning"
    /\ st[3].process = [phase |-> "spawning", killed |-> FALSE]

\* C34: a tunnel whose every subprocess exits before it is confirmed, with
\* no startTunnel or stopTunnel in between, ends in the terminal error state
\* "Max reconnect attempts reached": it gets there at the exit of its 11th
\* subprocess, after 10 scheduled reconnects, and spawns nothing afterwards.
\* Spawned(s) counts the subprocesses of s so far: it is 1 after startTunnel
\* and grows by one with every step that spawns.
Spawned(s) == st[s].reconnectAttempts + (IF st[s].reconnectTimer = "armed" THEN 0 ELSE 1)
SpawnStep(s) ==
    IF s \in Slots THEN st[s].process = Null /\ st'[s].process # Null
    ELSE s \in 1..Len(st')
C34_GivesUpAfterTenReconnects ==
    /\ [](\A s \in Slots :
            /\ Spawned(s) <= maxReconnectAttempts + 1
            /\ Exhausted(s) =>
                  /\ st[s].reconnectAttempts = maxReconnectAttempts
                  /\ Spawned(s) = maxReconnectAttempts + 1
                  /\ st[s].process = Null
                  /\ st[s].reconnectTimer # "armed")
    /\ [][\A s \in 1..Len(st') :
            /\ IF SpawnStep(s)
               THEN Spawned(s)' = IF s \in Slots THEN Spawned(s) + 1 ELSE 1
               ELSE Spawned(s)' = Spawned(s)
            /\ s \in Slots /\ st'[s].reconnectAttempts # st[s].reconnectAttempts =>
                  /\ st'[s].reconnectAttempts = st[s].reconnectAttempts + 1
                  /\ st'[s].reconnectTimer = "armed"
            /\ s \in Slots /\ Exhausted(s) =>
                  [st'[s] EXCEPT !.confirm = FALSE] = [st[s] EXCEPT !.confirm = FALSE]]_vars
    /\ \A s \in 1..MaxStarts : (s <= Len(st)) ~> (s <= Len(st) /\ Exhausted(s))

\* the tenth reconnect has fired and the 11th subprocess runs
C34_Witness ==
    \E s \in Slots :
        /\ st[s].reconnectAttempts = maxReconnectAttempts
        /\ st[s].reconnectTimer = "fired"
        /\ st[s].process.phase = "up"
        /\ st[s].status = "connecting"

\* C35: one failed subprocess schedules one reconnect.  A tunnel has at
\* most one reconnect timer pending, and the 'exit' event of a subprocess
\* whose 'error' event has been handled already neither counts a second
\* attempt nor arms a second timer.
PendingReconnects(s) == st[s].orphans + (IF st[s].reconnectTimer = "armed" THEN 1 ELSE 0)
C35_OneReconnectPerFailure ==
    /\ [](\A s \in Slots : PendingReconnects(s) <= 1)
    /\ [][\A s \in Slots :
            st[s].process.phase = "failed" /\ st'[s].process = Null =>
                /\ st'[s].reconnectAttempts = st[s].reconnectAttempts
                /\ PendingReconnects(s)' = PendingReconnects(s)]_vars

\* C36: a tunnel of the map whose status is connected holds a subprocess
\* that has been started, has not exited and has not been killed; no
\* TunnelState, tracked or not, is connected without a subprocess handle.
C36_ConnectedHoldsLiveSubprocess ==
    /\ \A s \in Tracked :
          st[s].status = "connected" =>
              /\ st[s].process # Null
              /\ st[s].process.phase = "up"
              /\ ~st[s].process.killed
    /\ \A s \in Slots : st[s].process = Null => st[s].status # "connected"

\* connected through a subprocess that the reconnect callback started
C36_Witness ==
    \E s \in Tracked :
        /\ st[s].status = "connected"
        /\ st[s].reconnectTimer = "fired"
        /\ st[s].process = [phase |-> "up", killed |-> FALSE]

\* ------------------------------------------------------------------------

\* C37: the supervisor never clears lastError.  A TunnelState that has an
\* error recorded keeps one; the confirmation callback leaves lastError as it
\* is, and so does the reconnect callback unless its spawn throws, which
\* records that failure.  getStatus() can therefore report a connected
\* tunnel together with the error of an earlier failed attempt.
C37_LastErrorIsNeverCleared ==
    [][\A s \in Slots :
          /\ st[s].lastError # NoError => st'[s].lastError # NoError
          /\ ConfirmStep(s) => st'[s].lastError = st[s].lastError
          /\ ReconnectStep(s) =>
                \/ st'[s].lastError = st[s].lastError
                \/ ThrowStep(s) /\ st'[s].lastError \in {ErrThrown, ErrMax}]_vars

\* the first spawn failed, the reconnect succeeded: getStatus() reports
\* connected with the error of the failed spawn
C37_Witness ==
    /\ Len(getStatus) = 1
    /\ getStatus[1].status = "connected"
    /\ getStatus[1].error = ErrSpawn
    /\ st[tunnels[getStatus[1].host]].reconnectAttempts = 0

\* ------------------------------------------------------------------------

\* C38: the catalogue and the dispatcher agree, in the engine with eleven
\* tools and in the one with three: a tools/call that names a tool is
\* answered with -32602 exactly when that name is not in the catalogue that
\* tools/list returns, whatever its arguments are.
CallArguments == {"undefined", "object", "null"}
C38_CatalogueMatchesDispatcher ==
    /\ processMessage(Msg("1", "tools/list", NoParams)).response.result.tools = TOOLS
    /\ \A name \in ToolNames \cup UnregisteredNames, arguments \in CallArguments :
          (handleToolCall("1", Call(name, arguments)).response.code = InvalidParams)
              <=> (name \notin ToolNames)
    /\ \A name \in ToolNames \cup UnregisteredNames, arguments \in CallArguments :
          (handleToolCallBase("1", Call(name, arguments)).response.code = InvalidParams)
              <=> (name \notin BaseToolNames)
    /\ [](\A r \in 1..Len(reqs) :
            ( /\ reqs[r].phase = "done"
              /\ reqs[r].body.json = "object"
              /\ reqs[r].body.value.method = "tools/call"
              /\ reqs[r].body.value.params.present )
            => ( (reqs[r].response.code = InvalidParams)
                     <=> (reqs[r].body.value.params.name \notin ToolNames) ))

\* a call of a listed tool has been answered with a result and a call of an
\* unlisted one with -32602
C38_Witness ==
    \E q, r \in 1..Len(reqs) :
        /\ reqs[q].phase = "done" /\ reqs[r].phase = "done"
        /\ reqs[q].body.value.params.name = "speak"
        /\ reqs[q].response.code = 0
        /\ reqs[r].body.value.params.name = "no_such_tool"
        /\ reqs[r].response.code = InvalidParams

\* ------------------------------------------------------------------------

\* C39: a body that parses as JSON but cannot be processed as a request,
\* the JSON text null or a tools/call without a params object, is answered
\* with HTTP 400 and the error -32700 'Parse error' with id null, not with a
\* routed error; no capability is invoked and nothing is broadcast.
Unprocessable(body) ==
    \/ body.json = "null"
    \/ /\ body.json = "object"
       /\ body.value.method = "tools/call"
       /\ ~body.value.params.present
C39_UnprocessableBodyIsParseError ==
    [][\A r \in 1..Len(reqs') :
         (ArrivalStep(r) /\ Unprocessable(reqs'[r].body))
           => /\ reqs'[r].phase = "done"
              /\ reqs'[r].status = 400
              /\ reqs'[r].response = ParseError
              /\ calls' = calls
              /\ chan' = chan
              /\ issued' = issued]_vars

\* both kinds of body were answered with 400 while a session was open; the
\* session has received nothing
C39_Witness ==
    /\ Len(reqs) = 2
    /\ reqs[1].body.json = "null" /\ reqs[1].status = 400
    /\ reqs[2].body.json = "object" /\ reqs[2].body.value.id = "4"
    /\ reqs[2].status = 400 /\ reqs[2].response.id = NullId
    /\ \E c \in sseClients : chan[c].wire = <<"endpoint">>
    /\ calls = <<>>

\* ------------------------------------------------------------------------

\* C40: whatever port is finally bound, the engine listens on the loopback
\* interface 127.0.0.1 only, also when the bind was retried after a port
\* conflict.
C40_ListensOnLoopbackOnly ==
    server = "listening" => listenHost = Loopback

TypeOK ==
    /\ DOMAIN tunnels \subseteq Keys
    /\ \A k \in DOMAIN tunnels : tunnels[k] \in Slots
    /\ \A s \in Slots : st[s].reconnectAttempts \in 0..maxReconnectAttempts
    /\ notice \in {"none", "info", "warn"}
    /\ last \in {"none", "stopAll", "getStatus", "output", "startTunnels"}
    /\ server \in {"null", "binding", "listening", "failed"}
    /\ port \in DefaultPort..(DefaultPort + MaxConflicts)
    /\ promise.state \in {"none", "pending", "resolved", "rejected"}
    /\ sseClients \subseteq 1..Len(chan)
    /\ Len(chan) <= MaxSessions
    /\ Len(reqs) <= MaxRequests
    /\ now \in 0..MaxClock
    /\ \A r \in 1..Len(reqs) : reqs[r].phase \in {"running", "done"}
    /\ \A i \in 1..Len(calls) : calls[i].tool \in ToolNames
    /\ listenHost \in {"none", Loopback, Unspecified}
====
